---- MODULE Spec2Model ----
(***************************************************************************)
(* A model of the DCPU-16 core of kballard/dcpu16: the State type, its     *)
(* operand translation and its Step method, and the Region helpers.        *)
(* Words are 16-bit unsigned integers; every operator below computes a     *)
(* value the way the Go code does, modulo 2^16 (Word) or 2^32 (uint32).    *)
(***************************************************************************)
EXTENDS Integers, Sequences, FiniteSets, TLC

\* type Word uint16: the number of values of a Word
WordMod == 65536

\* Conversion of a Go integer expression of type Word to its 16-bit value
Word(n) == n % WordMod

(***************************************************************************)
(* Go's bitwise operators on Words, bit by bit.                            *)
(***************************************************************************)
RECURSIVE BitAnd(_, _)
BitAnd(x, y) ==
    IF x = 0 \/ y = 0 THEN 0
    ELSE (IF x % 2 = 1 /\ y % 2 = 1 THEN 1 ELSE 0) + 2 * BitAnd(x \div 2, y \div 2)

RECURSIVE BitOr(_, _)
BitOr(x, y) ==
    IF x = 0 THEN y
    ELSE IF y = 0 THEN x
    ELSE (IF x % 2 = 1 \/ y % 2 = 1 THEN 1 ELSE 0) + 2 * BitOr(x \div 2, y \div 2)

RECURSIVE BitXor(_, _)
BitXor(x, y) ==
    IF x = 0 THEN y
    ELSE IF y = 0 THEN x
    ELSE (IF x % 2 # y % 2 THEN 1 ELSE 0) + 2 * BitXor(x \div 2, y \div 2)

RECURSIVE Pow2(_)
Pow2(n) == IF n = 0 THEN 1 ELSE 2 * Pow2(n - 1)

(***************************************************************************)
(* Region                                                                  *)
(***************************************************************************)
\* func (r Region) Contains(address Word) bool; r.Start+r.Length is a Word sum
Contains(r, address) ==
    address >= r.Start /\ address < Word(r.Start + r.Length)

\* func (r Region) End() Word
End(r) == Word(r.Start + r.Length)

\* func (r Region) Union(r2 Region) Region
Union(r, r2) ==
    LET start == IF r2.Start < r.Start THEN r2.Start ELSE r.Start
        length == IF End(r2) > End(r) THEN Word(End(r2) - start)
                  ELSE Word(End(r) - start)
    IN  [Start |-> start, Length |-> length]

(***************************************************************************)
(* Ram: [0x10000]Word, held as the finite map of its non-zero words (every *)
(* other word is 0), so that equal memories are equal values.              *)
(***************************************************************************)
RamGet(ram, addr) == IF addr \in DOMAIN ram THEN ram[addr] ELSE 0

RamSet(ram, addr, v) ==
    IF v = 0 THEN [x \in (DOMAIN ram) \ {addr} |-> ram[x]]
    ELSE [x \in (DOMAIN ram) \cup {addr} |-> IF x = addr THEN v ELSE ram[x]]

(***************************************************************************)
(* Instruction decoding                                                    *)
(***************************************************************************)
\* decodeOpcode with a mask of seven bits for operand a
decodeOpcode_WideMask(opcode) ==
    [oooo   |-> opcode % 16,
     aaaaaa |-> (opcode \div 16) % 128,
     bbbbbb |-> (opcode \div 1024) % 64]

\* func decodeOpcode(opcode Word) (oooo, aaaaaa, bbbbbb Word)
decodeOpcode(opcode) ==
    [oooo   |-> opcode % 16,
     aaaaaa |-> (opcode \div 16) % 64,
     bbbbbb |-> (opcode \div 1024) % 64]

\* One of wordCount's two switch statements. A Go case with an empty body
\* does nothing and does not fall through to the next case.
wordCountSwitch(count, op) ==
    CASE op >= 16 /\ op <= 23 -> count
      [] op = 30              -> count
      [] op = 31              -> Word(count + 1)
      [] OTHER                -> count

\* func wordCount(opcode Word) Word
wordCount(opcode) ==
    LET d == decodeOpcode(opcode)
    IN  wordCountSwitch(wordCountSwitch(1, d.aaaaaa), d.bbbbbb)

(***************************************************************************)
(* uint32 values. The model checker's integers are 32-bit signed, so a     *)
(* uint32 is held as its two 16-bit halves: value = hi * 2^16 + lo.        *)
(***************************************************************************)
\* uint32(a) + uint32(b)
U32Add(a, b) == [hi |-> (a + b) \div WordMod, lo |-> (a + b) % WordMod]

\* uint32(a) - uint32(b), modulo 2^32
U32Sub(a, b) == [hi |-> IF a < b THEN WordMod - 1 ELSE 0, lo |-> (a - b) % WordMod]

\* uint32(a) * uint32(b): the product of two Words is below 2^32
U32Mul(a, b) ==
    LET p1 == a * (b \div 256)
        p0 == a * (b % 256)
        t  == (p1 % 256) * 256 + p0
    IN  [hi |-> (p1 \div 256) + (t \div WordMod), lo |-> t % WordMod]

\* uint32(a) << uint32(b): Go shifts out every bit for a count >= 32
U32Shl(a, b) ==
    IF b >= 32 THEN [hi |-> 0, lo |-> 0]
    ELSE IF b >= 16 THEN [hi |-> (a * Pow2(b - 16)) % WordMod, lo |-> 0]
    ELSE [hi |-> (a * Pow2(b)) \div WordMod, lo |-> (a * Pow2(b)) % WordMod]

(***************************************************************************)
(* Pointers: the *Word that translateOperand returns points at a register  *)
(* field of the State, at a word of Ram, or is nil.                        *)
(***************************************************************************)
NilPtr == [kind |-> "nil", reg |-> "", addr |-> 0]
RegPtr(name) == [kind |-> "reg", reg |-> name, addr |-> 0]
RamPtr(a) == [kind |-> "ram", reg |-> "", addr |-> a]

\* *assignable
Deref(s, p) ==
    IF p.kind = "reg" THEN s[p.reg] ELSE RamGet(s.Ram, p.addr)

\* *assignable = val
Assign(s, p, val) ==
    IF p.kind = "reg" THEN [s EXCEPT ![p.reg] = val]
    ELSE [s EXCEPT !.Ram = RamSet(s.Ram, p.addr, val)]

\* The general-purpose register that operand codes 0-7, 8-15 and 16-23 name
RegName(i) == <<"A", "B", "C", "X", "Y", "Z", "I", "J">>[i + 1]

NoPanic == "none"

\* s.PC++ without the wrap of the 16-bit register
IncPC_NoWrap(s) == [s EXCEPT !.PC = s.PC + 1]

\* s.PC++
IncPC(s) == [s EXCEPT !.PC = Word(s.PC + 1)]

\* s.SP++
IncSP(s) == [s EXCEPT !.SP = Word(s.SP + 1)]

\* s.SP--
DecSP(s) == [s EXCEPT !.SP = Word(s.SP - 1)]

\* val = *assignable, the tail of translateOperand for an assignable operand
Loaded(s, p) == [s |-> s, val |-> Deref(s, p), assignable |-> p, panic |-> NoPanic]

\* translateOperand's return for a literal: assignable stays nil
Literal(s, v) == [s |-> s, val |-> v, assignable |-> NilPtr, panic |-> NoPanic]

\* cases 16-23: assignable = &s.Ram[s.Ram[s.PC]+s.<reg>]; s.PC++
translateNextWordPlusReg(s, op) ==
    Loaded(IncPC(s), RamPtr(Word(RamGet(s.Ram, s.PC) + s[RegName(op - 16)])))

\* case 24: POP incrementing SP before taking the address
translatePOP_IncrementFirst(s) == Loaded(IncSP(s), RamPtr(IncSP(s).SP))

\* case 24: POP. assignable = &s.Ram[s.SP]; s.SP++
translatePOP(s) == Loaded(IncSP(s), RamPtr(s.SP))

\* case 26: PUSH. s.SP--; assignable = &s.Ram[s.SP]
translatePUSH(s) == Loaded(DecSP(s), RamPtr(DecSP(s).SP))

\* case 30 without its s.PC++
translateNextWordAddr_NoAdvance(s) == Loaded(s, RamPtr(RamGet(s.Ram, s.PC)))

\* case 30: assignable = &s.Ram[s.Ram[s.PC]]; s.PC++
translateNextWordAddr(s) == Loaded(IncPC(s), RamPtr(RamGet(s.Ram, s.PC)))

\* case 31 with the word of the instruction stream as the assignable
translateNextWordLiteral_Assignable(s) == Loaded(IncPC(s), RamPtr(s.PC))

\* case 31: val = s.Ram[s.PC]; s.PC++
translateNextWordLiteral(s) == Literal(IncPC(s), RamGet(s.Ram, s.PC))

\* func (s *State) translateOperand(op Word) (val Word, assignable *Word)
translateOperand(s, op) ==
    CASE op >= 0 /\ op <= 7    -> Loaded(s, RegPtr(RegName(op)))
      [] op >= 8 /\ op <= 15   -> Loaded(s, RamPtr(s[RegName(op - 8)]))
      [] op >= 16 /\ op <= 23  -> translateNextWordPlusReg(s, op)
      [] op = 24               -> translatePOP(s)
      [] op = 25               -> Loaded(s, RamPtr(s.SP))
      [] op = 26               -> translatePUSH(s)
      [] op = 27               -> Loaded(s, RegPtr("SP"))
      [] op = 28               -> Loaded(s, RegPtr("PC"))
      [] op = 29               -> Loaded(s, RegPtr("O"))
      [] op = 30               -> translateNextWordAddr(s)
      [] op = 31               -> translateNextWordLiteral(s)
      [] op >= 64              -> [Literal(s, 0) EXCEPT !.panic = "Out of bounds operand"]
      [] OTHER                 -> Literal(s, Word(op - 32))

(***************************************************************************)
(* The execute switch of Step, one operator per case. Each yields the      *)
(* value val, the O register and the PC after the case, and the panic the  *)
(* Go runtime raises in it, if any.                                        *)
(***************************************************************************)
Executed(s, val) == [s |-> s, val |-> val, panic |-> NoPanic]

\* result := ...; val = Word(result & 0xFFFF); s.O = Word(result >> 16)
WithOverflow(s, result) == Executed([s EXCEPT !.O = result.hi], result.lo)

\* case 2: ADD
execADD(s, a, b) == WithOverflow(s, U32Add(a, b))

\* case 3: SUB, with O set to 1 on underflow, as for a borrow flag
execSUB_Borrow(s, a, b) ==
    Executed([s EXCEPT !.O = IF a < b THEN 1 ELSE 0], (a - b) % WordMod)

\* case 3: SUB
execSUB(s, a, b) == WithOverflow(s, U32Sub(a, b))

\* case 4: MUL
execMUL(s, a, b) == WithOverflow(s, U32Mul(a, b))

\* case 5: DIV. val = a / b; s.O = a % b. Go panics on an integer division by zero.
execDIV(s, a, b) ==
    IF b = 0 THEN [s |-> s, val |-> 0, panic |-> "integer divide by zero"]
    ELSE Executed([s EXCEPT !.O = a % b], a \div b)

\* case 6: MOD. val = a % b
execMOD(s, a, b) ==
    IF b = 0 THEN [s |-> s, val |-> 0, panic |-> "integer divide by zero"]
    ELSE Executed(s, a % b)

\* case 7: SHL
execSHL(s, a, b) == WithOverflow(s, U32Shl(a, b))

\* case 8: SHR setting O from the high word of its result, as SHL does
execSHR_SetsO(s, a, b) ==
    Executed([s EXCEPT !.O = 0], IF b >= 16 THEN 0 ELSE a \div Pow2(b))

\* case 8: SHR. val = a >> b on Words: every bit is shifted out for b >= 16
execSHR(s, a, b) == Executed(s, IF b >= 16 THEN 0 ELSE a \div Pow2(b))

\* The skip made by translating the operands of the next instruction
Skip_Translating(s) ==
    LET d == decodeOpcode(RamGet(s.Ram, s.PC))
    IN  translateOperand(translateOperand(IncPC(s), d.aaaaaa).s, d.bbbbbb).s

\* s.PC += wordCount(s.Ram[s.PC])
Skip(s) == [s EXCEPT !.PC = Word(s.PC + wordCount(RamGet(s.Ram, s.PC)))]

\* The conditions under which the next instruction is executed, not skipped
skipCondition_Inverted(ins, a, b) ==
    CASE ins = 12 -> a = b
      [] ins = 13 -> a # b
      [] ins = 14 -> a > b
      [] ins = 15 -> BitAnd(a, b) # 0

\* cases 12-15: the condition under which the next instruction is skipped
skipCondition(ins, a, b) ==
    CASE ins = 12 -> a # b
      [] ins = 13 -> a = b
      [] ins = 14 -> a <= b
      [] ins = 15 -> BitAnd(a, b) = 0

\* The execute switch of Step
execute(s, ins, a, b) ==
    CASE ins = 0  -> Executed(s, 0)
      [] ins = 1  -> Executed(s, b)
      [] ins = 2  -> execADD(s, a, b)
      [] ins = 3  -> execSUB(s, a, b)
      [] ins = 4  -> execMUL(s, a, b)
      [] ins = 5  -> execDIV(s, a, b)
      [] ins = 6  -> execMOD(s, a, b)
      [] ins = 7  -> execSHL(s, a, b)
      [] ins = 8  -> execSHR(s, a, b)
      [] ins = 9  -> Executed(s, BitAnd(a, b))
      [] ins = 10 -> Executed(s, BitOr(a, b))
      [] ins = 11 -> Executed(s, BitXor(a, b))
      [] ins >= 12 /\ ins <= 15 ->
            Executed(IF skipCondition(ins, a, b) THEN Skip(s) ELSE s, 0)
      [] OTHER    -> [s |-> s, val |-> 0, panic |-> "Out of bounds opcode"]

(***************************************************************************)
(* The store of Step, with its memory protection test                      *)
(***************************************************************************)
NoError == [kind |-> "nil", Address |-> 0, Opcode |-> 0, OperandA |-> 0, OperandB |-> 0]

ProtectionError(address, opcode, a, b) ==
    [kind |-> "ProtectionError", Address |-> address, Opcode |-> opcode,
     OperandA |-> a, OperandB |-> b]

\* The loop of Step over s.Protected from region i on: TRUE when it returns
\* the ProtectionError, FALSE when it ends or breaks (region.Start > index)
RECURSIVE protectedLoop(_, _, _)
protectedLoop(protected, i, index) ==
    IF i > Len(protected) THEN FALSE
    ELSE IF Contains(protected[i], index) THEN TRUE
    ELSE IF protected[i].Start > index THEN FALSE
    ELSE protectedLoop(protected, i + 1, index)

\* assPtr >= ramStart && assPtr <= ramEnd: the pointer is into s.Ram
inRam(p) == p.kind = "ram"

\* The store with the protection test made after the assignment
store_WritesThenFaults(s, opcode, ins, assignable, a, b, val) ==
    IF ins >= 1 /\ ins <= 11 /\ assignable # NilPtr
    THEN [s |-> Assign(s, assignable, val),
          err |-> IF inRam(assignable) /\ protectedLoop(s.Protected, 1, assignable.addr)
                  THEN ProtectionError(assignable.addr, opcode, a, b)
                  ELSE NoError]
    ELSE [s |-> s, err |-> NoError]

\* The store: if ins >= 1 && ins <= 11 && assignable != nil { ... }
store(s, opcode, ins, assignable, a, b, val) ==
    IF ins >= 1 /\ ins <= 11 /\ assignable # NilPtr
    THEN IF inRam(assignable) /\ protectedLoop(s.Protected, 1, assignable.addr)
         THEN [s |-> s, err |-> ProtectionError(assignable.addr, opcode, a, b)]
         ELSE [s |-> Assign(s, assignable, val), err |-> NoError]
    ELSE [s |-> s, err |-> NoError]

\* func (s *State) isProtected(address Word) bool
isProtected(s, address) == protectedLoop(s.Protected, 1, address)

\* The two translations in the other order: b first, then a
translateOperands_BFirst(s, a, b) ==
    LET tb == translateOperand(s, b)
        ta == translateOperand(tb.s, a)
    IN  [a |-> ta, b |-> [tb EXCEPT !.s = ta.s]]

\* a, assignable = s.translateOperand(a); b, _ = s.translateOperand(b)
translateOperands(s, a, b) ==
    LET ta == translateOperand(s, a)
        tb == translateOperand(ta.s, b)
    IN  [a |-> ta, b |-> tb]

(***************************************************************************)
(* func (s *State) Step() error                                            *)
(* The result holds the State after the call, the error returned, the      *)
(* panic raised (the call then does not return) and Step's locals, with PC *)
(* and SP as they are after the translation of operand a and of operand b. *)
(***************************************************************************)
Step(s) ==
    LET opcode == RamGet(s.Ram, s.PC)
        d  == decodeOpcode(opcode)
        t  == translateOperands(IncPC(s), d.aaaaaa, d.bbbbbb)
        ta == t.a
        tb == t.b
        ex == execute(tb.s, d.oooo, ta.val, tb.val)
        st == store(ex.s, opcode, d.oooo, ta.assignable, ta.val, tb.val, ex.val)
        locals == [opcode |-> opcode, ins |-> d.oooo, acode |-> d.aaaaaa,
                   bcode |-> d.bbbbbb, a |-> ta.val, b |-> tb.val,
                   assignable |-> ta.assignable, val |-> ex.val,
                   afterA |-> [PC |-> ta.s.PC, SP |-> ta.s.SP],
                   afterB |-> [PC |-> tb.s.PC, SP |-> tb.s.SP]]
    IN  IF ta.panic # NoPanic
        THEN [s |-> ta.s, err |-> NoError, panic |-> ta.panic, locals |-> locals]
        ELSE IF tb.panic # NoPanic
        THEN [s |-> tb.s, err |-> NoError, panic |-> tb.panic, locals |-> locals]
        ELSE IF ex.panic # NoPanic
        THEN [s |-> ex.s, err |-> NoError, panic |-> ex.panic, locals |-> locals]
        ELSE [s |-> st.s, err |-> st.err, panic |-> NoPanic, locals |-> locals]

(***************************************************************************)
(* Video: the 0x400 words of the screen buffer, held like Ram as the map   *)
(* of the non-zero words, and the mapped flag. What a method draws is the  *)
(* sequence of the drawing calls it makes.                                 *)
(***************************************************************************)
windowWidth == 32
characterRangeStart == 384
miscRangeStart == 640
backgroundColorAddress == 640

\* len(v.words)
VideoWords == 1024

\* var v Video
NewVideo == [words |-> <<>>, mapped |-> FALSE]

\* v.updateCell(row, column, word): one cell of the terminal is set
updateCell(row, column, word) ==
    [fn |-> "updateCell", row |-> row, column |-> column, word |-> word]

\* v.drawBorder(): the border is drawn in the colour at backgroundColorAddress
drawBorder(v) ==
    [fn |-> "drawBorder", row |-> 0, column |-> 0,
     word |-> BitAnd(RamGet(v.words, backgroundColorAddress), 15)]

handleChange_Inclusive(v, offset) ==
    IF offset <= characterRangeStart
    THEN <<updateCell(offset \div windowWidth, offset % windowWidth,
                      RamGet(v.words, offset))>>
    ELSE IF offset < miscRangeStart THEN <<>>
    ELSE IF offset = backgroundColorAddress THEN <<drawBorder(v)>>
    ELSE <<>>

\* func (v *Video) handleChange(offset core.Word): the drawing calls made
handleChange(v, offset) ==
    IF offset < characterRangeStart
    THEN <<updateCell(offset \div windowWidth, offset % windowWidth,
                      RamGet(v.words, offset))>>
    ELSE IF offset < miscRangeStart THEN <<>>
    ELSE IF offset = backgroundColorAddress THEN <<drawBorder(v)>>
    ELSE <<>>

\* get := func(offset core.Word) core.Word
get(v, offset) == RamGet(v.words, offset)

\* set := func(offset, val core.Word) error: the Video after the call and
\* the drawing calls made
set(v, offset, val) ==
    LET w == [v EXCEPT !.words = RamSet(v.words, offset, val)]
    IN  [v |-> w, drawn |-> handleChange(w, offset)]

(***************************************************************************)
(* The memory map of a Machine: m.State.Ram with its mapped regions, each  *)
(* with the Video whose get and set it carries, and its protected regions. *)
(* MapRegion and UnmapRegion are as the specification of the memory gives  *)
(* them: MapRegion fails if the region overlaps a mapped or a protected    *)
(* region or extends past 0xFFFF; UnmapRegion removes a region registered  *)
(* with exactly those bounds and fails otherwise.                          *)
(***************************************************************************)
\* Two half-open ranges share an address
Overlap(r, r2) ==
    r.Start < r2.Start + r2.Length /\ r2.Start < r.Start + r.Length

\* m.State.Ram.MapRegion(start, length, get, set), get and set being owner's
MapRegion(m, start, length, owner) ==
    LET region == [Start |-> start, Length |-> length]
    IN  IF \/ start + length > WordMod
           \/ \E r \in m.regions : Overlap(region, r)
           \/ \E i \in 1..Len(m.protected) : Overlap(region, m.protected[i])
        THEN [m |-> m, err |-> "MapConflict"]
        ELSE [m |-> [m EXCEPT !.regions = m.regions \cup
                        {[Start |-> start, Length |-> length, owner |-> owner]}],
              err |-> ""]

\* m.State.Ram.UnmapRegion(start, length)
UnmapRegion(m, start, length) ==
    LET found == {r \in m.regions : r.Start = start /\ r.Length = length}
    IN  IF found = {} THEN [m |-> m, err |-> "MapConflict"]
        ELSE [m |-> [m EXCEPT !.regions = m.regions \ found], err |-> ""]

\* func (v *Video) MapToMachine(offset core.Word, m *Machine) error
\* this names the Video v points to; called tells whether MapRegion was called
MapToMachine(v, this, offset, m) ==
    IF v.mapped
    THEN [v |-> v, m |-> m, err |-> "Video is already mapped to a machine",
          called |-> FALSE]
    ELSE LET r == MapRegion(m, offset, VideoWords, this)
         IN  IF r.err # ""
             THEN [v |-> v, m |-> r.m, err |-> r.err, called |-> TRUE]
             ELSE [v |-> [v EXCEPT !.mapped = TRUE], m |-> r.m, err |-> "",
                   called |-> TRUE]

\* func (v *Video) UnmapFromMachine(offset core.Word, m *Machine) error
UnmapFromMachine(v, this, offset, m) ==
    IF ~v.mapped
    THEN [v |-> v, m |-> m, err |-> "Video is not mapped to a machine",
          called |-> FALSE]
    ELSE LET r == UnmapRegion(m, offset, VideoWords)
         IN  IF r.err # ""
             THEN [v |-> v, m |-> r.m, err |-> r.err, called |-> TRUE]
             ELSE [v |-> [v EXCEPT !.mapped = FALSE], m |-> r.m, err |-> "",
                   called |-> TRUE]

(***************************************************************************)
(* main: the words of the program file. A byte is converted to a Word      *)
(* before it is shifted, and << binds tighter than +.                      *)
(***************************************************************************)
\* The loop body with the two byte orders exchanged
wordAt_Exchanged(data, i, littleEndian) ==
    LET b1 == data[i * 2 + 1]
        b2 == data[i * 2 + 2]
    IN  IF littleEndian THEN Word(Word(b1 * 256) + b2) ELSE Word(Word(b2 * 256) + b1)

\* The loop body: b1, b2 := data[i*2], data[i*2+1] and w = b2<<8 + b1 or
\* w = b1<<8 + b2. Go's data is indexed from 0, the sequence from 1.
wordAt(data, i, littleEndian) ==
    LET b1 == data[i * 2 + 1]
        b2 == data[i * 2 + 2]
    IN  IF littleEndian THEN Word(Word(b2 * 256) + b1) ELSE Word(Word(b1 * 256) + b2)

\* words := make([]core.Word, len(data)/2); for i := 0; i < len(data)/2; i++
wordsOf(data, littleEndian) ==
    [i \in 1..(Len(data) \div 2) |-> wordAt(data, i - 1, littleEndian)]

(***************************************************************************)
(* The state of the model                                                  *)
(***************************************************************************)
VARIABLES
    state,   \* the State: its Registers A..J, PC, SP, O, its Ram and Protected
    err,     \* the error the last call of Step returned (NoError for nil)
    panic,   \* the panic that ended the program, or NoPanic
    trace,   \* per Step call made: the State before it and Step's locals
    call,    \* the last call of a method: its receiver, arguments, result
    videos,  \* the Videos: each one's words and mapped flag
    drawn,   \* the drawing calls the Videos have made
    machine, \* the Machine: the regions mapped in its State.Ram
    main     \* main's locals: data, *littleEndian, words

vars == <<state, err, panic, trace, call, videos, drawn, machine, main>>

\* The State and what Step returns
cpuVars == <<state, err, panic, trace>>

\* The Videos, the Machine they are mapped to, and main
peripheralVars == <<videos, drawn, machine, main>>

\* The number of Step calls of a run
MaxSteps == 3

\* new(State): every register and every word of Ram is zero, nothing protected
ZeroState ==
    [A |-> 0, B |-> 0, C |-> 0, X |-> 0, Y |-> 0, Z |-> 0, I |-> 0, J |-> 0,
     PC |-> 0, SP |-> 0, O |-> 0, Ram |-> <<>>, Protected |-> <<>>]

\* The instruction word with opcode oooo and operand codes aaaaaa, bbbbbb
Instr(oooo, aaaaaa, bbbbbb) == oooo + 16 * aaaaaa + 1024 * bbbbbb

\* Ram with the words of a program copied to base, base+1, ...
RECURSIVE Load(_, _, _)
Load(ram, words, base) ==
    IF words = <<>> THEN ram
    ELSE Load(RamSet(ram, base, Head(words)), Tail(words), Word(base + 1))

Region(start, length) == [Start |-> start, Length |-> length]

NoCall == [fn |-> "none", r |-> Region(0, 0), r2 |-> Region(0, 0), address |-> 0,
           result |-> FALSE, union |-> Region(0, 0)]

\* The Videos of a run
Videos == {1, 2}

\* A Machine with nothing mapped
NewMachine == [regions |-> {}, protected |-> <<>>]

\* main before it has read a program
NoMain == [data |-> <<>>, littleEndian |-> FALSE, words |-> <<>>, loaded |-> FALSE]

\* No Video in use, nothing mapped, no program read
NoPeripherals ==
    /\ videos = [v \in Videos |-> NewVideo]
    /\ drawn = <<>>
    /\ machine = NewMachine
    /\ main = NoMain

(***************************************************************************)
(* Initial States. Each family places an instruction at PC = 0 and varies  *)
(* what the instruction, the registers, the memory and Protected are.      *)
(***************************************************************************)
\* A State with distinct registers, with data after the instruction word and
\* with two protected regions, the second ending at the top of the memory
BusyState ==
    [A |-> 4096, B |-> 5, C |-> 65528, X |-> 8192, Y |-> 65535, Z |-> 4111,
     I |-> 4112, J |-> 0, PC |-> 0, SP |-> 4097, O |-> 170,
     Ram |-> Load(Load(Load(<<>>, <<4100, 3, 32225, 4096, 66>>, 1),
                       <<7, 0, 0, 0, 85>>, 4096), <<9>>, 8192),
     Protected |-> <<Region(4096, 16), Region(65520, 16)>>]

\* Every instruction word, in the busy State
EveryInstruction(s) ==
    \E w \in 0..(WordMod - 1) : s = [BusyState EXCEPT !.Ram = RamSet(BusyState.Ram, 0, w)]

\* Values of operands at and around the edges of the arithmetic
EdgeValues == {0, 1, 2, 3, 15, 16, 17, 31, 32, 33, 255, 256, 32767, 32768, 65534, 65535}

\* Every opcode on registers A and B holding edge values
EveryOperation(s) ==
    \E op \in 0..15, a \in EdgeValues, b \in EdgeValues :
        s = [ZeroState EXCEPT !.A = a, !.B = b, !.O = 4660,
                              !.Ram = Load(<<>>, <<Instr(op, 0, 1), 33793>>, 0)]

\* Every conditional on A and B, followed by an instruction of every operand codes
EveryFollower(s) ==
    \E c \in 12..15, ab \in {<<0, 0>>, <<1, 3>>}, a \in 0..63, b \in 0..63 :
        s = [ZeroState EXCEPT !.A = ab[1], !.B = ab[2],
                !.Ram = Load(<<>>, <<Instr(c, 0, 1), Instr(1, a, b), 4096, 66>>, 0)]

\* Every conditional on operands that use the stack or take a next word,
\* followed by an instruction whose operands do so too
ConditionalOnStack(s) ==
    \E c \in 12..15, a \in {0, 24, 25, 26, 27, 30, 31}, b \in {0, 24, 25, 26, 27, 30, 31},
       follower \in {Instr(1, 26, 24), Instr(1, 24, 31), Instr(2, 30, 26), Instr(1, 0, 1)} :
        s = [ZeroState EXCEPT !.A = 5, !.SP = 4096,
                !.Ram = Load(Load(<<>>, <<7, 5, 5, 9>>, 4095),
                             <<Instr(c, a, b)>>
                             \o (IF a \in {30, 31} THEN <<4096>> ELSE <<>>)
                             \o (IF b \in {30, 31} THEN <<4097>> ELSE <<>>)
                             \o <<follower, 8192, 8193>>, 0)]

\* The programs of the end-to-end scenarios, from the zero State but for A
ImmediateLoad == [ZeroState EXCEPT !.Ram = Load(<<>>, <<31745, 48>>, 0)]
AddOverflow == [ZeroState EXCEPT !.A = 65535, !.Ram = Load(<<>>, <<33794>>, 0)]
SkipProgram == [ZeroState EXCEPT !.Ram = Load(<<>>, <<49165, 32225, 4096, 66, 33793>>, 0)]
StackRoundTrip == [ZeroState EXCEPT !.Ram = Load(<<>>, <<32161, 4660, 24577>>, 0)]
ProtectionFault ==
    [ZeroState EXCEPT !.Ram = Load(<<>>, <<32225, 4096, 1>>, 0),
                      !.Protected = <<Region(4096, 16)>>]

Scenario(s) ==
    s \in {ImmediateLoad, AddOverflow, SkipProgram, StackRoundTrip, ProtectionFault}

\* Where the stack starts, and what is protected there
StackStarts ==
    {<<0, <<>> >>, <<1, <<>> >>, <<2, <<>> >>, <<65535, <<>> >>,
     <<32768, <<Region(32767, 1)>> >>}

\* A store through PUSH followed by an instruction with a POP operand
PushThenPop(s) ==
    \E st \in StackStarts,
       push \in {Instr(1, 26, b) : b \in {0, 1, 24, 25, 26, 27, 31, 33}} \cup {Instr(2, 26, 1)},
       pop \in {Instr(op, a, 24) : op \in {1, 2}, a \in 0..63}
               \cup {Instr(op, 24, b) : op \in {1, 2}, b \in 0..63} :
        s = [ZeroState EXCEPT !.A = 24577, !.B = 7, !.SP = st[1], !.Protected = st[2],
                !.Ram = Load(<<>>, <<push>> \o (IF decodeOpcode(push).bbbbbb = 31
                                               THEN <<4660>> ELSE <<>>)
                                   \o <<pop, 8192, 8193>>, 0)]

\* Instructions at the top of the memory, and stacks at its two ends
AtTheEdge(s) ==
    \E pc \in {65533, 65534, 65535}, sp \in {0, 1, 65535},
       w \in {Instr(op, a, b) : op \in {0, 1, 2, 12}, a \in {0, 16, 24, 26, 30, 31},
                                b \in {1, 23, 24, 26, 30, 31, 40}} :
        s = [ZeroState EXCEPT !.PC = pc, !.SP = sp, !.A = 65535, !.B = 2,
                !.Ram = Load(<<>>, <<w, 65535, 3, 31745, 48>>, pc)]

\* Stores of every opcode to every address sample under every Protected sample
ProtectedSamples ==
    {<<>>, <<Region(4096, 16)>>, <<Region(16, 16), Region(4096, 1), Region(8192, 256)>>,
     <<Region(256, 1), Region(65280, 256)>>, <<Region(1, 65535)>>}

AddressSamples ==
    {0, 1, 15, 16, 31, 32, 255, 256, 257, 4095, 4096, 4097, 4111, 4112, 8191, 8192,
     8447, 8448, 65279, 65280, 65534, 65535}

ProtectedStores(s) ==
    \E ins \in 0..15, protected \in ProtectedSamples, address \in AddressSamples,
       target \in {8, 16, 25, 26, 30} :
        s = [ZeroState EXCEPT !.A = address, !.SP = address, !.B = 5,
                !.Protected = protected,
                !.PC = 512,
                !.Ram = Load(<<>>, <<Instr(ins, target, 1),
                                     IF target = 16 THEN 0 ELSE address>>, 512)]

Init ==
    /\ \/ EveryInstruction(state)
       \/ EveryOperation(state)
       \/ EveryFollower(state)
       \/ ConditionalOnStack(state)
       \/ Scenario(state)
       \/ PushThenPop(state)
       \/ AtTheEdge(state)
       \/ ProtectedStores(state)
    /\ err = NoError
    /\ panic = NoPanic
    /\ trace = <<>>
    /\ call = NoCall
    /\ NoPeripherals

\* A call of Step on the State. A panic ends the program.
DoStep ==
    /\ panic = NoPanic
    /\ Len(trace) < MaxSteps
    /\ LET r == Step(state)
       IN  /\ state' = r.s
           /\ err' = r.err
           /\ panic' = r.panic
           /\ trace' = Append(trace, [pre |-> state, locals |-> r.locals, err |-> r.err])
    /\ UNCHANGED <<call, peripheralVars>>

Next == DoStep

Spec == Init /\ [][Next]_vars

(***************************************************************************)
(* The Region methods as a specification of their own: Init draws the      *)
(* receiver and the arguments, an action applies the method.               *)
(***************************************************************************)
RegionStarts == {0, 1, 16, 4096, 32768, 65520, 65534, 65535}
RegionLengths == {0, 1, 2, 15, 16, 17, 4096, 32768, 65535}

\* The Starts and Lengths of the argument of Union
OtherStarts == {0, 16, 4096, 65520}
OtherLengths == {0, 1, 16, 4096}

InitRegion ==
    /\ state = ZeroState
    /\ err = NoError
    /\ panic = NoPanic
    /\ trace = <<>>
    /\ \E start \in RegionStarts, length \in RegionLengths, address \in AddressSamples,
          start2 \in OtherStarts, length2 \in OtherLengths :
          call = [NoCall EXCEPT !.r = Region(start, length), !.address = address,
                                !.r2 = Region(start2, length2)]
    /\ NoPeripherals

DoContains ==
    /\ call.fn = "none"
    /\ call' = [call EXCEPT !.fn = "Contains", !.result = Contains(call.r, call.address)]
    /\ UNCHANGED <<cpuVars, peripheralVars>>

\* r.Union(r2)
DoUnion ==
    /\ call.fn = "none"
    /\ call' = [call EXCEPT !.fn = "Union", !.union = Union(call.r, call.r2)]
    /\ UNCHANGED <<cpuVars, peripheralVars>>

NextRegion == DoContains \/ DoUnion

SpecRegion == InitRegion /\ [][NextRegion]_vars

(***************************************************************************)
(* Calls of a Video's set, as the memory of the Machine makes them for a   *)
(* store into the region the Video is mapped to: offset < len(v.words).    *)
(***************************************************************************)
\* A Video that has not been initialised, one after Init, one showing text
VideoSamples ==
    {NewVideo,
     [NewVideo EXCEPT !.words = Load(<<>>, <<3>>, backgroundColorAddress)],
     [NewVideo EXCEPT !.words = Load(Load(<<>>, <<61512, 61541, 61548>>, 0),
                                     <<65535, 7>>, backgroundColorAddress - 1)]}

WordSamples == {0, 1, 65, 61505, 65535}

NoSet == [fn |-> "none", offset |-> 0, val |-> 0]

InitVideo ==
    /\ state = ZeroState
    /\ err = NoError
    /\ panic = NoPanic
    /\ trace = <<>>
    /\ call = NoSet
    /\ \E v \in VideoSamples : videos = [i \in Videos |-> IF i = 1 THEN v ELSE NewVideo]
    /\ drawn = <<>>
    /\ machine = NewMachine
    /\ main = NoMain

\* set(offset, val) of the first Video
DoSet ==
    /\ call.fn = "none"
    /\ \E offset \in 0..(VideoWords - 1), val \in WordSamples :
          LET r == set(videos[1], offset, val)
          IN  /\ videos' = [videos EXCEPT ![1] = r.v]
              /\ drawn' = drawn \o r.drawn
              /\ call' = [fn |-> "set", offset |-> offset, val |-> val]
    /\ UNCHANGED <<cpuVars, machine, main>>

NextVideo == DoSet

SpecVideo == InitVideo /\ [][NextVideo]_vars

(***************************************************************************)
(* At most MaxCalls calls of MapToMachine and UnmapFromMachine of the      *)
(* Videos on one Machine. trace holds per call its method, its receiver,   *)
(* its offset, the error returned ("" for nil), whether the memory map was *)
(* called, and the mapped flag of the receiver before and after the call.  *)
(***************************************************************************)
MaxCalls == 4

\* The offsets of the calls: two that are free, one that overlaps the first,
\* one from which the buffer extends past 0xFFFF
MapOffsets == {32768, 33280, 36864, 65024}

InitMapping ==
    /\ state = ZeroState
    /\ err = NoError
    /\ panic = NoPanic
    /\ trace = <<>>
    /\ call = NoCall
    /\ videos = [v \in Videos |-> NewVideo]
    /\ drawn = <<>>
    /\ \E protected \in {<<>>, <<Region(36880, 16)>>} :
          machine = [NewMachine EXCEPT !.protected = protected]
    /\ main = NoMain

\* The effect of a call of a method on the Video this, with its result r
Called(fn, this, offset, r) ==
    /\ videos' = [videos EXCEPT ![this] = r.v]
    /\ machine' = r.m
    /\ trace' = Append(trace, [fn |-> fn, video |-> this, offset |-> offset,
                               err |-> r.err, called |-> r.called,
                               before |-> videos[this].mapped,
                               after |-> r.v.mapped])
    /\ UNCHANGED <<state, err, panic, call, drawn, main>>

DoMapToMachine ==
    /\ Len(trace) < MaxCalls
    /\ \E this \in Videos, offset \in MapOffsets :
          Called("MapToMachine", this, offset,
                 MapToMachine(videos[this], this, offset, machine))

DoUnmapFromMachine ==
    /\ Len(trace) < MaxCalls
    /\ \E this \in Videos, offset \in MapOffsets :
          Called("UnmapFromMachine", this, offset,
                 UnmapFromMachine(videos[this], this, offset, machine))

NextMapping == DoMapToMachine \/ DoUnmapFromMachine

SpecMapping == InitMapping /\ [][NextMapping]_vars

(***************************************************************************)
(* main reads a program file of at most MaxBytes bytes                     *)
(***************************************************************************)
MaxBytes == 3

ByteSamples == {0, 1, 127, 128, 255}

InitMain ==
    /\ state = ZeroState
    /\ err = NoError
    /\ panic = NoPanic
    /\ trace = <<>>
    /\ call = NoCall
    /\ videos = [v \in Videos |-> NewVideo]
    /\ drawn = <<>>
    /\ machine = NewMachine
    /\ \E n \in 0..MaxBytes, littleEndian \in BOOLEAN :
          \E data \in [1..n -> ByteSamples] :
              main = [NoMain EXCEPT !.data = data, !.littleEndian = littleEndian]

\* The bytes of the file are interpreted as Words
DoInterpret ==
    /\ ~main.loaded
    /\ main' = [main EXCEPT !.words = wordsOf(main.data, main.littleEndian),
                            !.loaded = TRUE]
    /\ UNCHANGED <<cpuVars, call, videos, drawn, machine>>

NextMain == DoInterpret

SpecMain == InitMain /\ [][NextMain]_vars

(***************************************************************************)
(* What the claims speak of                                                *)
(***************************************************************************)
Stepped == Len(trace) > 0

\* The last call of Step: the State before it, its locals, its error
Last == trace[Len(trace)]

\* The operand codes that take the next word: 16-23, 30 and 31
ExtraWord(code) == IF (code >= 16 /\ code <= 23) \/ code = 30 \/ code = 31 THEN 1 ELSE 0

\* The number of words of an instruction, by its operand codes
InstructionWords(opcode) ==
    1 + ExtraWord((opcode \div 16) % 64) + ExtraWord((opcode \div 1024) % 64)

\* The condition under which each conditional skips
Skips(ins, a, b) ==
    \/ ins = 12 /\ a # b
    \/ ins = 13 /\ a = b
    \/ ins = 14 /\ a <= b
    \/ ins = 15 /\ BitAnd(a, b) = 0

\* PC after the words of the last instruction itself
PastOwnWords ==
    Word(Last.pre.PC + 1 + ExtraWord(Last.locals.acode) + ExtraWord(Last.locals.bcode))

\* C1: a conditional whose skip condition holds advances PC past exactly the
\* following instruction, by 1, 2 or 3 words as its operand codes take extra
\* words; otherwise PC is left at the following instruction.
C1_SkipIsOneInstruction ==
    (Stepped /\ Last.locals.ins >= 12) =>
        state.PC = IF Skips(Last.locals.ins, Last.locals.a, Last.locals.b)
                   THEN Word(PastOwnWords
                             + InstructionWords(RamGet(Last.pre.Ram, PastOwnWords)))
                   ELSE PastOwnWords

\* A region of the list holds the address, as the half-open range without wrap
InSomeRegion(protected, address) ==
    \E i \in 1..Len(protected) :
        protected[i].Start <= address
        /\ address < protected[i].Start + protected[i].Length

\* Sorted ascending by Start, not overlapping, every region within the memory
WellFormed(protected) ==
    /\ \A i \in 1..Len(protected) : protected[i].Start + protected[i].Length <= WordMod
    /\ \A i \in 1..(Len(protected) - 1) :
          protected[i].Start + protected[i].Length <= protected[i + 1].Start

\* The last Step stored, or was to store, into a protected word of Ram
StoreIntoProtected ==
    /\ Last.locals.ins >= 1 /\ Last.locals.ins <= 11
    /\ Last.locals.assignable.kind = "ram"
    /\ InSomeRegion(Last.pre.Protected, Last.locals.assignable.addr)

\* C2: Step returns a ProtectionError exactly when the opcode is in 1..11 and
\* operand a's target is a word of Ram inside a Protected region; the error
\* names that address and Ram is unchanged; register targets never fault.
C2_FaultIffProtectedStore ==
    (Stepped /\ WellFormed(Last.pre.Protected)) =>
        /\ (err.kind = "ProtectionError") <=> StoreIntoProtected
        /\ StoreIntoProtected =>
              err.Address = Last.locals.assignable.addr /\ state.Ram = Last.pre.Ram
        /\ Last.locals.assignable.kind = "reg" => err = NoError

\* C3: DIV by b = 0 yields val = 0 and O = 0, MOD by b = 0 yields val = 0, and
\* Step returns normally; with b # 0 DIV yields a/b and O = a%b, MOD a%b.
C3_DivisionByZeroIsZero ==
    (Stepped /\ Last.locals.ins \in {5, 6}) =>
        /\ panic = NoPanic
        /\ Last.locals.val = IF Last.locals.b = 0 THEN 0
                             ELSE IF Last.locals.ins = 5
                                  THEN Last.locals.a \div Last.locals.b
                                  ELSE Last.locals.a % Last.locals.b
        /\ (Last.locals.ins = 5 /\ Last.locals.acode # 29) =>
              state.O = IF Last.locals.b = 0 THEN 0 ELSE Last.locals.a % Last.locals.b

\* 32-bit arithmetic on halves, for the true results: x + y modulo 2^32
Add32(x, y) ==
    [hi |-> (x.hi + y.hi + ((x.lo + y.lo) \div WordMod)) % WordMod,
     lo |-> (x.lo + y.lo) % WordMod]

\* -x modulo 2^32
Neg32(x) == Add32([hi |-> WordMod - 1 - x.hi, lo |-> WordMod - 1 - x.lo], [hi |-> 0, lo |-> 1])

Wide(w) == [hi |-> 0, lo |-> w]

\* x * 2^n modulo 2^32, by n doublings
RECURSIVE Doubled(_, _)
Doubled(x, n) == IF n = 0 THEN x ELSE Doubled(Add32(x, x), n - 1)

\* a * b modulo 2^32, by doubling and adding
RECURSIVE Product(_, _)
Product(a, b) ==
    IF b = 0 THEN Wide(0)
    ELSE Add32(IF b % 2 = 1 THEN Wide(a) ELSE Wide(0), Doubled(Product(a, b \div 2), 1))

\* a+b, a-b, a*b, a*2^b modulo 2^32
TrueResult(ins, a, b) ==
    CASE ins = 2 -> Add32(Wide(a), Wide(b))
      [] ins = 3 -> Add32(Wide(a), Neg32(Wide(b)))
      [] ins = 4 -> Product(a, b)
      [] ins = 7 -> Doubled(Wide(a), IF b > 32 THEN 32 ELSE b)

\* C4: after ADD, SUB, MUL or SHL (operand a not the O register),
\* O * 2^16 + val is the true result modulo 2^32; SUB leaves O = 0xFFFF exactly
\* on a < b and 0 otherwise; ADD A, 1 with A = 0xFFFF leaves A = 0 and O = 1.
C4_OverflowIsHighWord ==
    /\ (Stepped /\ Last.locals.ins \in {2, 3, 4, 7} /\ Last.locals.acode # 29) =>
          /\ state.O = TrueResult(Last.locals.ins, Last.locals.a, Last.locals.b).hi
          /\ Last.locals.val = TrueResult(Last.locals.ins, Last.locals.a, Last.locals.b).lo
          /\ Last.locals.ins = 3 =>
                state.O = IF Last.locals.a < Last.locals.b THEN 65535 ELSE 0
    /\ (Len(trace) = 1 /\ Last.pre = AddOverflow) => state.A = 0 /\ state.O = 1

\* A SUB that underflows has been stepped
C4_Witness ==
    /\ Stepped /\ Last.locals.ins = 3 /\ Last.locals.acode # 29
    /\ Last.locals.a < Last.locals.b /\ state.O = 65535

\* C5 as stated: in the skip program the IFN skips the three-word SET, which
\* never executes, and the run ends with Ram[0x1000] = 0, A = 0 and O = 0.
C5_SkipProgramSkips ==
    (Stepped /\ trace[1].pre = SkipProgram) =>
        /\ Len(trace) = 1 => state.PC = 4
        /\ RamGet(state.Ram, 4096) = 0 /\ state.A = 0 /\ state.O = 0

\* C5 amended: the first word is IFN A, 16, which does not skip as A = 0; the
\* SET [0x1000], 0x42 executes second; the third word is SET A, 1; after the
\* three Steps Ram[0x1000] = 0x42, A = 1, O = 0 and PC = 5.
C5_SkipProgramRuns ==
    (Stepped /\ trace[1].pre = SkipProgram) =>
        /\ trace[1].locals.ins = 13 /\ trace[1].locals.a = 0 /\ trace[1].locals.b = 16
        /\ Len(trace) = 1 => state.PC = 1 /\ RamGet(state.Ram, 4096) = 0
        /\ Len(trace) = 2 => state.PC = 4 /\ RamGet(state.Ram, 4096) = 66 /\ state.A = 0
        /\ Len(trace) = 3 => state.PC = 5
        /\ Len(trace) >= 3 =>
              RamGet(state.Ram, 4096) = 66 /\ state.A = 1 /\ state.O = 0

\* The three instructions of the skip program have run
C5_Witness ==
    Len(trace) = 3 /\ trace[1].pre = SkipProgram /\ state.PC = 5 /\ state.A = 1

\* A Step that stores through PUSH, with no other push or pop in it, and
\* whose stack word is not protected
PushStep(e) ==
    /\ e.locals.ins >= 1 /\ e.locals.ins <= 11
    /\ e.locals.acode = 26 /\ e.locals.bcode \notin {24, 26}
    /\ e.err = NoError

\* A Step that reads through POP, with no other push or pop in it
PopStep(e) ==
    /\ (e.locals.acode = 24) # (e.locals.bcode = 24)
    /\ e.locals.acode # 26 /\ e.locals.bcode # 26

\* The value the Step read through its POP operand
Popped(e) == IF e.locals.acode = 24 THEN e.locals.a ELSE e.locals.b

\* The Step stores its value into the SP register
StoresIntoSP(e) == e.locals.ins >= 1 /\ e.locals.ins <= 11 /\ e.locals.acode = 27

PushedThenPopped ==
    Len(trace) >= 2 /\ PushStep(trace[Len(trace) - 1]) /\ PopStep(Last)

\* C6 as stated: a store through PUSH followed by a read through POP returns
\* the pushed value and leaves SP as it was before the PUSH, for every SP.
C6_PushPopRestoresSP ==
    PushedThenPopped =>
        /\ Popped(Last) = trace[Len(trace) - 1].locals.val
        /\ state.SP = trace[Len(trace) - 1].pre.SP

\* C6 amended: the POP returns the pushed value, and SP is as it was before
\* the PUSH unless the popping Step itself stores into SP (opcode 1..11 with
\* operand a = SP); SET PUSH, 0x1234; SET A, POP ends with A = 0x1234, SP = 0.
C6_PushPopRoundTrip ==
    /\ PushedThenPopped =>
          /\ Popped(Last) = trace[Len(trace) - 1].locals.val
          /\ Last.locals.afterB.SP = trace[Len(trace) - 1].pre.SP
          /\ ~StoresIntoSP(Last) => state.SP = trace[Len(trace) - 1].pre.SP
    /\ (Len(trace) = 2 /\ trace[1].pre = StackRoundTrip) =>
          PushedThenPopped /\ state.A = 4660 /\ state.SP = 0

\* A push from SP = 0 wrapped to 0xFFFF and the pop wrapped back to 0
C6_Witness ==
    /\ PushedThenPopped /\ ~StoresIntoSP(Last)
    /\ trace[Len(trace) - 1].pre.SP = 0 /\ Last.pre.SP = 65535 /\ state.SP = 0
    /\ Popped(Last) = 4660

\* The opcodes that do not specify O: SET, MOD, SHR, AND, BOR, XOR, IFE..IFB
LeavesO(ins) == ins \in {1, 6, 8, 9, 10, 11, 12, 13, 14, 15}

C8_ContainsIsHalfOpenRange ==
    (call.fn = "Contains" /\ call.r.Start + call.r.Length <= WordMod) =>
        (call.result <=> (call.r.Start <= call.address
                          /\ call.address < call.r.Start + call.r.Length))

\* C9: translating an operand of code 16-23, 30 or 31 advances PC by exactly
\* one and any other code leaves PC; so a non-conditional Step that does not
\* store into PC ends with PC = old PC + 1 + its extra words, modulo 2^16;
\* SET A, 0x30 as [0x7C01, 0x0030] gives A = 0x30 and PC = 2.
C9_ExtraWordsAdvancePC ==
    /\ Stepped =>
          /\ Last.locals.afterA.PC = Word(Last.pre.PC + 1 + ExtraWord(Last.locals.acode))
          /\ Last.locals.afterB.PC
                = Word(Last.locals.afterA.PC + ExtraWord(Last.locals.bcode))
          /\ (Last.locals.ins <= 11 /\ ~(Last.locals.ins >= 1 /\ Last.locals.acode = 28)) =>
                state.PC = PastOwnWords
    /\ (Len(trace) = 1 /\ Last.pre = ImmediateLoad) => state.A = 48 /\ state.PC = 2

\* A three-word instruction that does not store into PC has run
C9_Witness ==
    /\ Stepped /\ Last.locals.ins >= 1 /\ Last.locals.ins <= 11
    /\ Last.locals.acode = 30 /\ Last.locals.bcode = 31
    /\ state.PC = Word(Last.pre.PC + 3)

RegisterNames == {"A", "B", "C", "X", "Y", "Z", "I", "J", "PC", "SP", "O"}

IsWord(x) == x \in 0..(WordMod - 1)

\* C10: every register and every word of Ram is in 0..0xFFFF and so is every
\* computed address: PC wraps from 0xFFFF to 0, SP from 0 to 0xFFFF, and a
\* [next_word + reg] address is taken modulo 2^16.
C10_EverythingIsAWord ==
    /\ \A r \in RegisterNames : IsWord(state[r])
    /\ \A x \in DOMAIN state.Ram : IsWord(x) /\ IsWord(state.Ram[x])
    /\ Stepped =>
          /\ IsWord(Last.locals.assignable.addr)
          /\ IsWord(Last.locals.a) /\ IsWord(Last.locals.b) /\ IsWord(Last.locals.val)
          /\ IsWord(Last.locals.afterA.PC) /\ IsWord(Last.locals.afterB.PC)
          /\ IsWord(Last.locals.afterA.SP) /\ IsWord(Last.locals.afterB.SP)
          /\ (Last.pre.PC = 65535 /\ ExtraWord(Last.locals.acode) = 1) =>
                Last.locals.afterA.PC = 1
          /\ (Last.pre.SP = 0 /\ Last.locals.acode = 26) => Last.locals.afterA.SP = 65535
          /\ (Last.locals.acode >= 16 /\ Last.locals.acode <= 23) =>
                Last.locals.assignable.addr
                    = (RamGet(Last.pre.Ram, Word(Last.pre.PC + 1))
                       + Last.pre[RegName(Last.locals.acode - 16)]) % WordMod

\* An instruction at 0xFFFF took its operand word at 0 and left PC at 1,
\* with a [next_word + reg] address that wrapped
C10_Witness ==
    /\ Stepped /\ Last.pre.PC = 65535 /\ Last.locals.acode = 16 /\ state.PC = 1
    /\ RamGet(Last.pre.Ram, 0) + Last.pre.A >= WordMod
    /\ Last.locals.assignable.addr = 65534

(***************************************************************************)
(* Video                                                                   *)
(***************************************************************************)
\* C11: for every offset o in 0..0x3FF and value v, set(o, v) stores v in
\* word o of the buffer, so that get(o) returns v, and then draws by offset:
\* exactly one cell, row o/32 and column o%32 with word v, iff o < 0x180;
\* the border exactly once iff o = 0x280; nothing for any other offset.
C11_SetStoresAndDispatches ==
    call.fn = "set" =>
        LET o == call.offset
            cells == {i \in 1..Len(drawn) : drawn[i].fn = "updateCell"}
            borders == {i \in 1..Len(drawn) : drawn[i].fn = "drawBorder"}
        IN  /\ get(videos[1], o) = call.val
            /\ Cardinality(cells) = (IF o < 384 THEN 1 ELSE 0)
            /\ Cardinality(borders) = (IF o = 640 THEN 1 ELSE 0)
            /\ Len(drawn) = Cardinality(cells) + Cardinality(borders)
            /\ \A i \in cells :
                  /\ drawn[i].row = o \div 32
                  /\ drawn[i].column = o % 32
                  /\ drawn[i].word = call.val

\* A set of the first word of the font range, which draws nothing
C11_Witness ==
    /\ call.fn = "set"
    /\ call.offset = 384
    /\ call.val = 65535
    /\ get(videos[1], 384) = 65535
    /\ drawn = <<>>

(***************************************************************************)
(* main                                                                    *)
(***************************************************************************)
\* A Word with its two bytes exchanged
ByteSwap(w) == (w % 256) * 256 + (w \div 256)

RamChanges ==
    {x \in (DOMAIN Last.pre.Ram) \cup (DOMAIN state.Ram) :
        RamGet(Last.pre.Ram, x) # RamGet(state.Ram, x)}

\* The operand codes that name a word of Ram: [reg], [next word + reg],
\* POP, PEEK, PUSH and [next word]
MemoryOperand(code) == (code >= 8 /\ code <= 26) \/ code = 30

\* The register of operand codes 0-7, 8-15, 16-23, before the Step
RegisterOf(code) == Last.pre[RegName(code % 8)]

\* The address operand a names, from the State before the Step
TargetOfA ==
    LET code == Last.locals.acode
        next == RamGet(Last.pre.Ram, Word(Last.pre.PC + 1))
    IN  CASE code >= 8 /\ code <= 15  -> RegisterOf(code)
          [] code >= 16 /\ code <= 23 -> Word(next + RegisterOf(code))
          [] code = 24 \/ code = 25   -> Last.pre.SP
          [] code = 26                -> Word(Last.pre.SP - 1)
          [] code = 30                -> next
          [] OTHER                    -> 0

GeneralRegistersKept ==
    \A r \in {"A", "B", "C", "X", "Y", "Z", "I", "J"} : state[r] = Last.pre[r]

\* C13: a Step changes at most one word of Ram, and only when the opcode is
\* in 1..11 and operand a is a memory operand (codes 8-26 or 30), the word
\* being a's target; a Step with opcode 0, with a conditional opcode or with
\* a literal operand a (code 31 or 32-63) leaves Ram and A..J unchanged.
C13_StoreFrame ==
    Stepped =>
        LET changes == RamChanges
        IN  /\ Cardinality(changes) <= 1
            /\ changes # {} =>
                  /\ Last.locals.ins >= 1 /\ Last.locals.ins <= 11
                  /\ MemoryOperand(Last.locals.acode)
                  /\ changes = {TargetOfA}
            /\ (Last.locals.ins = 0 \/ Last.locals.ins >= 12 \/ Last.locals.acode >= 31) =>
                  /\ changes = {}
                  /\ GeneralRegistersKept

\* A store of another value to a next-word literal, which is dropped
C13_Witness ==
    /\ Stepped
    /\ Last.locals.ins = 1
    /\ Last.locals.acode = 31
    /\ Last.locals.val # Last.locals.a
    /\ Last.err = NoError
    /\ panic = NoPanic
    /\ state.Ram = Last.pre.Ram

(***************************************************************************)
(* Conditionals and their operands                                         *)
(***************************************************************************)
\* What an operand code adds to SP: POP 1, PUSH -1
StackDelta(code) == IF code = 24 THEN 1 ELSE IF code = 26 THEN 0 - 1 ELSE 0

\* SP after the operands of the last instruction itself
PastOwnStack ==
    Word(Last.pre.SP + StackDelta(Last.locals.acode) + StackDelta(Last.locals.bcode))

\* C14: the operands of a conditional have their side effects whether or
\* not it skips: each POP adds 1 to SP, each PUSH subtracts 1, each next
\* word advances PC by one; and the skipped instruction's operands are not
\* translated: it changes neither SP nor Ram nor a register other than PC.
C14_ConditionalSideEffects ==
    (Stepped /\ Last.locals.ins >= 12) =>
        /\ Last.locals.afterB.PC = PastOwnWords
        /\ Last.locals.afterB.SP = PastOwnStack
        /\ state.SP = PastOwnStack
        /\ state.Ram = Last.pre.Ram
        /\ GeneralRegistersKept
        /\ state.O = Last.pre.O
        /\ ~Skips(Last.locals.ins, Last.locals.a, Last.locals.b) => state.PC = PastOwnWords

\* A conditional that pops, takes a next word and skips an instruction
\* with a PUSH and a POP operand
C14_Witness ==
    /\ Stepped
    /\ Skips(Last.locals.ins, Last.locals.a, Last.locals.b)
    /\ Last.locals.acode = 24
    /\ Last.locals.bcode = 31
    /\ RamGet(Last.pre.Ram, PastOwnWords) = Instr(1, 26, 24)
    /\ state.SP = Word(Last.pre.SP + 1)
    /\ state.PC # PastOwnWords

(***************************************************************************)
(* The order of the two translations                                       *)
(***************************************************************************)
\* The value of the operand of a code, translated when the next word is at
\* pc and the stack pointer is sp, in the State before the last Step
ValueAt(code, pc, sp) ==
    LET ram == Last.pre.Ram
    IN  CASE code >= 0 /\ code <= 7   -> RegisterOf(code)
          [] code >= 8 /\ code <= 15  -> RamGet(ram, RegisterOf(code))
          [] code >= 16 /\ code <= 23 -> RamGet(ram, Word(RamGet(ram, pc) + RegisterOf(code)))
          [] code = 24 \/ code = 25   -> RamGet(ram, sp)
          [] code = 26                -> RamGet(ram, Word(sp - 1))
          [] code = 27                -> sp
          [] code = 28                -> pc
          [] code = 29                -> Last.pre.O
          [] code = 30                -> RamGet(ram, RamGet(ram, pc))
          [] code = 31                -> RamGet(ram, pc)
          [] OTHER                    -> code - 32

\* C15: operand a is translated before operand b: a uses the word after the
\* instruction word and b the word after a's; a's change of SP is applied
\* before b computes its address; and a's value is the one read at a's
\* translation, before any side effect of b.
C15_ABeforeB ==
    Stepped =>
        LET pc == Word(Last.pre.PC + 1)
            pcA == Word(pc + ExtraWord(Last.locals.acode))
            spA == Word(Last.pre.SP + StackDelta(Last.locals.acode))
        IN  /\ Last.locals.a = ValueAt(Last.locals.acode, pc, Last.pre.SP)
            /\ Last.locals.afterA.PC = pcA
            /\ Last.locals.afterA.SP = spA
            /\ Last.locals.b = ValueAt(Last.locals.bcode, pcA, spA)
            /\ Last.locals.afterB.PC = PastOwnWords
            /\ Last.locals.afterB.SP = PastOwnStack

\* PUSH as a and POP as b: b reads the word a's decrement of SP points at
C15_Witness ==
    /\ Stepped
    /\ Last.locals.acode = 26
    /\ Last.locals.bcode = 24
    /\ Last.locals.b = RamGet(Last.pre.Ram, Word(Last.pre.SP - 1))
    /\ Last.locals.b # RamGet(Last.pre.Ram, Last.pre.SP)
    /\ state.SP = Last.pre.SP

(***************************************************************************)
(* Decoding                                                                *)
(***************************************************************************)
\* C16: for every instruction word and State, decodeOpcode yields an opcode
\* in 0..15 and operand codes in 0..63, so that neither the "Out of bounds
\* operand" panic of translateOperand nor the "Out of bounds opcode" panic
\* of Step is raised in any sequence of Steps.
C16_DecodeInRange ==
    /\ panic \notin {"Out of bounds operand", "Out of bounds opcode"}
    /\ \A i \in 1..Len(trace) :
          /\ trace[i].locals.ins \in 0..15
          /\ trace[i].locals.acode \in 0..63
          /\ trace[i].locals.bcode \in 0..63
          /\ trace[i].locals.opcode = trace[i].locals.ins + 16 * trace[i].locals.acode
                                        + 1024 * trace[i].locals.bcode

\* The word of all ones decodes to the largest opcode and operand codes
C16_Witness ==
    /\ Stepped
    /\ Last.locals.opcode = 65535
    /\ Last.locals.ins = 15
    /\ Last.locals.acode = 63
    /\ Last.locals.bcode = 63
    /\ panic = NoPanic

(***************************************************************************)
(* Region.Union                                                            *)
(***************************************************************************)
\* The region lies within the address space
WithinMemory(r) == r.Start + r.Length <= WordMod

\* The address is in the half-open range of the region, without wrap
Covers(r, address) == r.Start <= address /\ address < r.Start + r.Length

Min(x, y) == IF x < y THEN x ELSE y

Max(x, y) == IF x > y THEN x ELSE y

\* C17: for two Regions within the address space r.Union(r2) is the smallest
\* region containing both: its Start is the smaller Start, its end the
\* larger end, it contains every address r or r2 contains, and Union is
\* commutative and idempotent.
C17_UnionIsSmallestCover ==
    (call.fn = "Union" /\ WithinMemory(call.r) /\ WithinMemory(call.r2)) =>
        /\ call.union.Start = Min(call.r.Start, call.r2.Start)
        /\ call.union.Start + call.union.Length =
              Max(call.r.Start + call.r.Length, call.r2.Start + call.r2.Length)
        /\ \A address \in AddressSamples :
              (Covers(call.r, address) \/ Covers(call.r2, address))
                  => Covers(call.union, address)
        /\ Union(call.r2, call.r) = call.union
        /\ Union(call.r, call.r) = call.r
        /\ Union(call.r2, call.r2) = call.r2

(***************************************************************************)
(* The State a ProtectionError leaves                                      *)
(***************************************************************************)
\* C18: a Step that returns a ProtectionError is not rolled back: PC is past
\* the instruction word and every extra operand word, SP has been changed by
\* a PUSH or POP operand, and ADD, SUB, MUL, DIV and SHL have updated O;
\* only the store to the protected word is suppressed.
C18_FaultIsNotRolledBack ==
    (Stepped /\ Last.err.kind = "ProtectionError") =>
        /\ err = Last.err
        /\ Last.err.Address = TargetOfA
        /\ state.PC = PastOwnWords
        /\ state.SP = PastOwnStack
        /\ Last.locals.ins \in {2, 3, 4, 7} =>
              state.O = TrueResult(Last.locals.ins, Last.locals.a, Last.locals.b).hi
        /\ Last.locals.ins = 5 =>
              state.O = Last.locals.a - Last.locals.b * (Last.locals.a \div Last.locals.b)
        /\ Last.locals.ins \notin {2, 3, 4, 5, 7} => state.O = Last.pre.O
        /\ state.Ram = Last.pre.Ram
        /\ GeneralRegistersKept

\* A SUB through PUSH into a protected word: the fault leaves SP decremented
\* and O set by the underflow
C18_Witness ==
    /\ Stepped
    /\ Last.err.kind = "ProtectionError"
    /\ Last.locals.ins = 3
    /\ Last.locals.acode = 26
    /\ Last.err.Address = Word(Last.pre.SP - 1)
    /\ state.SP = Word(Last.pre.SP - 1)
    /\ Last.pre.O = 0
    /\ state.O = 65535
    /\ state.PC = Word(Last.pre.PC + 1)
    /\ state.Ram = Last.pre.Ram

(***************************************************************************)
(* The mapped flag of a Video                                              *)
(***************************************************************************)
\* The calls on a Video that returned nil
Successes(v) == {i \in 1..Len(trace) : trace[i].video = v /\ trace[i].err = ""}

\* The method of the last of them
LastSuccess(v) ==
    IF Successes(v) = {} THEN "none"
    ELSE trace[CHOOSE i \in Successes(v) : \A j \in Successes(v) : j <= i].fn

\* The regions of the memory map that carry the get and set of a Video
Registrations(v) == {r \in machine.regions : r.owner = v}

\* The flag is true exactly when the last successful call was MapToMachine
MappedFollowsLastSuccess ==
    \A v \in Videos : videos[v].mapped <=> (LastSuccess(v) = "MapToMachine")

\* The calls that must fail do so without a call of the memory map, and no
\* failing call changes the flag
FailuresKeepFlag ==
    \A i \in 1..Len(trace) :
        /\ (trace[i].fn = "MapToMachine" /\ trace[i].before) =>
              (trace[i].err # "" /\ ~trace[i].called)
        /\ (trace[i].fn = "UnmapFromMachine" /\ ~trace[i].before) =>
              (trace[i].err # "" /\ ~trace[i].called)
        /\ trace[i].err # "" => trace[i].after = trace[i].before

\* C19: across any sequence of MapToMachine and UnmapFromMachine calls the
\* mapped flag of a Video is true exactly when its last successful call was
\* MapToMachine; MapToMachine on a mapped Video and UnmapFromMachine on an
\* unmapped one fail without calling MapRegion or UnmapRegion; a failing
\* MapRegion or UnmapRegion leaves the flag unchanged; so a Video is never
\* registered in the memory map of a machine twice at once.
C19_MappedAtMostOnce ==
    /\ MappedFollowsLastSuccess
    /\ FailuresKeepFlag
    /\ \A v \in Videos : Cardinality(Registrations(v)) <= 1
====
